---- MODULE Spec2Model ----
(***************************************************************************)
(* LangtraceFileGenerator (src/generate_file.py): the output-directory     *)
(* lifecycle, the naming policy of generate_multiple_files, the record     *)
(* created_files and cleanup, over a small filesystem of two directories.  *)
(***************************************************************************)
EXTENDS Integers, Sequences, FiniteSets, TLC

VARIABLES
    use_timestamp,   \* self.use_timestamp
    created_files,   \* self.created_files: the paths written, by file name under output_dir
    dirs,            \* the directories that exist, among BaseDir and TsDir
    files,           \* per directory, the regular files in it: file name -> content
    last,            \* the call that returned last: operation, arguments, outcome
    succeeded,       \* the writes that went through since the last cleanup, in order
    faults,          \* filesystem failures so far
    calls,           \* calls made so far
    n_count,         \* naming only: count
    n_base,          \* naming only: base_filename
    n_i,             \* naming only: loop index i
    n_filename       \* naming only: the name handed to generate_file

vars == <<use_timestamp, created_files, dirs, files, last, succeeded, faults, calls,
          n_count, n_base, n_i, n_filename>>

genVars == <<use_timestamp, created_files, dirs, files, last, succeeded, faults, calls>>

nameVars == <<n_count, n_base, n_i, n_filename>>

-----------------------------------------------------------------------------
(* Bounds *)

MaxCount == 3
MaxFaults == 1
MaxCalls == 2
MaxRecord == 4
MaxNameCount == 101

-----------------------------------------------------------------------------
(* Strings are sequences of one-character strings. *)

DotPy == <<".", "p", "y">>
InitStem == <<"_", "_", "i", "n", "i", "t", "_", "_">>
InitName == InitStem \o DotPy
NameA == <<"a">>
NameB == <<"b">>

\* Optional[...] arguments: None is the empty sequence, a value v is <<v>>
None == <<>>
Some(v) == <<v>>
Value(opt) == opt[1]

\* The inputs: base names, explicit filename lists, single filenames, counts
DefaultBase == NameB
BaseNames == {DefaultBase, InitStem}
FilenameLists == {<<>>, <<NameA, NameA \o DotPy>>, <<InitStem>>}
OneNames == {NameA, InitName}

BaseDir == "base"
TsDir == "base/langtrace_ts"
Dirs == {BaseDir, TsDir}

\* __init__, lines 125-129
OutputDir == IF use_timestamp THEN TsDir ELSE BaseDir

Template == "template"
InitPlusTemplate == "init+template"
Partial == "partial"
Foreign == "foreign"
ForeignName == <<"x">>

EmptyDir == [n \in {} |-> Template]

\* str.endswith
EndsWith(s, suffix) ==
    /\ Len(s) >= Len(suffix)
    /\ SubSeq(s, Len(s) - Len(suffix) + 1, Len(s)) = suffix

\* generate_file, lines 156-157
Normalize(filename) ==
    IF ~EndsWith(filename, DotPy) THEN filename \o DotPy ELSE filename

\* Faulty variant: the init header goes to every __init__.py, whatever add_init
PayloadIgnoringFlag(filename, add_init) ==
    IF filename = InitName THEN InitPlusTemplate ELSE Template

\* generate_file, lines 162-177; filename is the normalized name
Payload(filename, add_init) ==
    IF add_init /\ filename = InitName THEN InitPlusTemplate ELSE Template

\* open(file_path, 'w') followed by f.write: the directory's files afterwards
PutFile(d, name, content) ==
    [n \in (DOMAIN d) \cup {name} |-> IF n = name THEN content ELSE d[n]]

RemoveFile(d, name) == [n \in (DOMAIN d) \ {name} |-> d[n]]

\* The entries pathlib's iterdir() yields for a directory
Entries(ds, fs, d) ==
    {<<"file", n>> : n \in DOMAIN fs[d]}
        \cup (IF d = BaseDir /\ TsDir \in ds THEN {<<"dir", TsDir>>} ELSE {})

-----------------------------------------------------------------------------
(* Naming policy of _generate_files_by_count *)

DigitChars == <<"0", "1", "2", "3", "4", "5", "6", "7", "8", "9">>

\* str(n) for n >= 0
RECURSIVE Str(_)
Str(n) ==
    IF n < 10 THEN <<DigitChars[n + 1]>>
    ELSE Append(Str(n \div 10), DigitChars[(n % 10) + 1])

\* str.zfill(width) of an unsigned digit string
RECURSIVE Zfill(_, _)
Zfill(s, width) == IF Len(s) >= width THEN s ELSE Zfill(<<"0">> \o s, width)

\* Faulty variant: the width of count - 1
PaddingOfLast(count) == Len(Str(count - 1))

\* line 248
Padding(count) == Len(Str(count))

\* lines 244-249: the name of the i-th file
CountFilename(count, base_filename, i) ==
    IF count = 1 THEN base_filename
    ELSE base_filename \o <<"_">> \o Zfill(Str(i), Padding(count))

-----------------------------------------------------------------------------
(* generate_file *)

Range(s) == {s[k] : k \in 1..Len(s)}

\* What open()/write() can do: the write goes through, open raises (always so
\* when the directory is missing), or the write raises after open truncated.
WriteOutcomes(ds) ==
    IF OutputDir \notin ds THEN {"open_fail"}
    ELSE {"ok"} \cup (IF faults < MaxFaults THEN {"open_fail", "write_fail"} ELSE {})

\* lines 179-180
FilesAfterWrite(fs, name, content, outcome) ==
    CASE outcome = "ok" -> [fs EXCEPT ![OutputDir] = PutFile(@, name, content)]
      [] outcome = "write_fail" -> [fs EXCEPT ![OutputDir] = PutFile(@, name, Partial)]
      [] OTHER -> fs

\* Faulty variant: the path is appended before the write is known to go through
RecordAlways(record, name, outcome) == Append(record, name)

\* lines 182 and 186-188: the path is appended only after the write went through
RecordAfterWrite(record, name, outcome) ==
    IF outcome = "ok" THEN Append(record, name) ELSE record

\* Faulty variant: the IOError is logged and swallowed
NeverRaises(outcome) == FALSE

\* lines 186-188: an IOError is logged and raised again
Raises(outcome) == outcome # "ok"

\* generate_file(req.filename, req.add_init) with the given outcome, applied to
\* st = [files, created_files, succeeded, attempts, result]
WriteOne(st, req, outcome) ==
    LET name == Normalize(req.filename) IN
    [files |-> FilesAfterWrite(st.files, name, Payload(name, req.add_init), outcome),
     created_files |-> RecordAfterWrite(st.created_files, name, outcome),
     succeeded |-> IF outcome = "ok" THEN Append(st.succeeded, name) ELSE st.succeeded,
     attempts |-> st.attempts + 1,
     result |-> IF Raises(outcome) THEN "IOError" ELSE "ok"]

Entered == [files |-> files, created_files |-> created_files, succeeded |-> succeeded,
            attempts |-> 0, result |-> "ok"]

Request(filename, add_init) == [filename |-> filename, add_init |-> add_init]

NoAfter == [op |-> "none", result |-> "none", fresh_start |-> FALSE, count |-> None]

\* What a later cleanup remembers of the call before it
After(l) ==
    [op |-> l.op, result |-> l.result,
     fresh_start |-> l.pre_len = 0 /\ ~l.dir_existed,
     count |-> IF l.op = "generate_multiple_files" THEN l.args.count ELSE None]

NoCall == [op |-> "none", result |-> "none", args |-> None, pre_len |-> 0,
           dir_existed |-> FALSE, attempts |-> 0, after |-> NoAfter]

Called(op, result, args, attempts_made) ==
    [op |-> op, result |-> result, args |-> args, pre_len |-> Len(created_files),
     dir_existed |-> OutputDir \in dirs, attempts |-> attempts_made,
     after |-> IF op = "cleanup" THEN After(last) ELSE NoAfter]

\* generate_file called by the user, lines 146-188
GenerateFile ==
    /\ calls < MaxCalls
    /\ Len(created_files) < MaxRecord
    /\ \E filename \in OneNames, add_init \in BOOLEAN, outcome \in WriteOutcomes(dirs) :
        /\ add_init => filename = InitName
        /\ LET st == WriteOne(Entered, Request(filename, add_init), outcome) IN
           /\ files' = st.files
           /\ created_files' = st.created_files
           /\ succeeded' = st.succeeded
           /\ faults' = IF outcome # "ok" /\ OutputDir \in dirs THEN faults + 1 ELSE faults
           /\ last' = Called("generate_file", st.result,
                             [filename |-> filename, add_init |-> add_init], 1)
    /\ calls' = calls + 1
    /\ UNCHANGED <<use_timestamp, dirs, nameVars>>

-----------------------------------------------------------------------------
(* generate_multiple_files *)

\* What Path.mkdir(parents=True, exist_ok=True) can do: create what is missing,
\* raise OSError at once, or raise after the missing parent was created.
MkdirOutcomes ==
    {"ok"} \cup (IF faults < MaxFaults
                 THEN {"fail"} \cup (IF use_timestamp /\ BaseDir \notin dirs
                                     THEN {"fail_after_parent"} ELSE {})
                 ELSE {})

\* create_output_directory, lines 131-144
DirsAfterMkdir(ds, outcome) ==
    CASE outcome = "ok" -> ds \cup {BaseDir, OutputDir}
      [] outcome = "fail_after_parent" -> ds \cup {BaseDir}
      [] OTHER -> ds

Args(filenames, count, create_init, base_filename) ==
    [filenames |-> filenames, count |-> count, create_init |-> create_init,
     base_filename |-> base_filename]

\* The argument tuples generate_multiple_files is called with
BatchInputs ==
    {Args(None, Some(c), ci, b) : c \in 1..MaxCount, ci \in BOOLEAN, b \in BaseNames}
    \cup {Args(None, Some(c), ci, DefaultBase) : c \in (0 - 1)..0, ci \in BOOLEAN}
    \cup {Args(Some(l), None, ci, DefaultBase) : l \in FilenameLists, ci \in BOOLEAN}
    \cup {Args(None, None, ci, DefaultBase) : ci \in BOOLEAN}
    \cup {Args(Some(<<NameA>>), Some(c), ci, DefaultBase) : c \in {1}, ci \in BOOLEAN}

\* lines 211-215
InvalidSelectors(a) ==
    \/ a.filenames = None /\ a.count = None
    \/ a.filenames # None /\ a.count # None

\* lines 220-221: generate_file('__init__.py', add_init=True) comes first
InitRequests(a) == IF a.create_init THEN <<Request(InitName, TRUE)>> ELSE <<>>

\* lines 243-251: the generate_file calls of _generate_files_by_count, i = 1..count
RECURSIVE CountRequests(_, _, _)
CountRequests(count, base_filename, i) ==
    IF i > count THEN <<>>
    ELSE <<Request(CountFilename(count, base_filename, i), FALSE)>>
             \o CountRequests(count, base_filename, i + 1)

\* lines 261-262: the generate_file calls of _generate_files_by_names
NameRequests(filenames) ==
    [k \in 1..Len(filenames) |-> Request(filenames[k], FALSE)]

\* lines 219-227: the generate_file calls of a call in the order it makes them
Requests(a) ==
    InitRequests(a) \o
    (IF a.count # None
     THEN CountRequests(Value(a.count), a.base_filename, 1)
     ELSE NameRequests(Value(a.filenames)))

\* lines 238-239, reached after the init file was written
CountRejected(a) == a.count # None /\ Value(a.count) <= 0

\* The generate_file calls one after the other; the k-th has outcome fail.kind
\* when k = fail.at and goes through otherwise. An exception ends the call.
RECURSIVE RunWrites(_, _, _, _)
RunWrites(st, reqs, k, fail) ==
    IF k > Len(reqs) THEN st
    ELSE LET outcome == IF k = fail.at THEN fail.kind ELSE "ok"
             st1 == WriteOne(st, reqs[k], outcome)
         IN IF Raises(outcome) THEN st1 ELSE RunWrites([st1 EXCEPT !.result = "ok"], reqs, k + 1, fail)

NoFail == [at |-> 0, kind |-> "ok"]

WriteFailures(n) ==
    {NoFail} \cup (IF faults < MaxFaults
                   THEN {[at |-> k, kind |-> kind] :
                            k \in 1..n, kind \in {"open_fail", "write_fail"}}
                   ELSE {})

\* generate_multiple_files, lines 190-229, with _generate_files_by_count and
\* _generate_files_by_names
GenerateMultipleFiles ==
    /\ calls < MaxCalls
    /\ \E a \in BatchInputs :
        /\ IF InvalidSelectors(a) THEN TRUE
           ELSE Len(created_files) + Len(Requests(a)) <= MaxRecord
        /\ IF InvalidSelectors(a)
           THEN /\ last' = Called("generate_multiple_files", "ValueError", a, 0)
                /\ UNCHANGED <<created_files, dirs, files, succeeded, faults>>
           ELSE \E mk \in MkdirOutcomes :
                 /\ dirs' = DirsAfterMkdir(dirs, mk)
                 /\ IF mk # "ok"
                    THEN /\ last' = Called("generate_multiple_files", "OSError", a, 0)
                         /\ faults' = faults + 1
                         /\ UNCHANGED <<created_files, files, succeeded>>
                    ELSE \E fail \in WriteFailures(Len(Requests(a))) :
                          LET st == RunWrites(Entered, Requests(a), 1, fail)
                              result == IF st.result # "ok" THEN st.result
                                        ELSE IF CountRejected(a) THEN "ValueError"
                                        ELSE "ok"
                          IN /\ files' = st.files
                             /\ created_files' = st.created_files
                             /\ succeeded' = st.succeeded
                             /\ faults' = IF fail = NoFail THEN faults ELSE faults + 1
                             /\ last' = Called("generate_multiple_files", result, a, st.attempts)
    /\ calls' = calls + 1
    /\ UNCHANGED <<use_timestamp, nameVars>>

-----------------------------------------------------------------------------
(* cleanup *)

\* lines 266-272: the loop over created_files; unlink raises OSError for the
\* paths in unlink_fail, which is logged and skipped
RECURSIVE UnlinkAll(_, _, _)
UnlinkAll(record, d, unlink_fail) ==
    IF record = <<>> THEN d
    ELSE LET file_path == Head(record)
             d1 == IF file_path \in DOMAIN d /\ file_path \notin unlink_fail
                   THEN RemoveFile(d, file_path)
                   ELSE d
         IN UnlinkAll(Tail(record), d1, unlink_fail)

\* Faulty variant: both directories are removed without looking into them
DirsAfterCleanupUnchecked(ds, fs, rmdir_fail) == ds \ {OutputDir, BaseDir}

\* Faulty variant: no directory is removed
DirsAfterCleanupKeeping(ds, fs, rmdir_fail) == ds

\* lines 275-287: rmdir of the output directory when it is empty, then of the
\* base directory when it is another directory and empty; rmdir_fail names the
\* rmdir that raises OSError, if any
DirsAfterCleanup(ds, fs, rmdir_fail) ==
    IF OutputDir \in ds /\ Entries(ds, fs, OutputDir) = {}
    THEN IF rmdir_fail = "output_dir" THEN ds
         ELSE LET ds1 == ds \ {OutputDir} IN
              IF use_timestamp /\ BaseDir \in ds1 /\ Entries(ds1, fs, BaseDir) = {}
              THEN IF rmdir_fail = "base_output_dir" THEN ds1 ELSE ds1 \ {BaseDir}
              ELSE ds1
    ELSE ds

\* The rmdir calls that cleanup reaches and that may raise
RmdirFailures(ds, fs) ==
    {"none"} \cup
    (IF faults < MaxFaults /\ OutputDir \in ds /\ Entries(ds, fs, OutputDir) = {}
     THEN {"output_dir"} \cup
          (IF use_timestamp /\ Entries(ds \ {OutputDir}, fs, BaseDir) = {}
           THEN {"base_output_dir"} ELSE {})
     ELSE {})

\* Faulty variant: the record is not cleared
RecordKept(record) == record

\* line 289: created_files.clear()
RecordAfterCleanup(record) == <<>>

\* cleanup, lines 264-289
Cleanup ==
    /\ calls < MaxCalls
    /\ \E unlink_fail \in SUBSET (Range(created_files) \cap DOMAIN files[OutputDir]) :
        /\ Cardinality(unlink_fail) <= MaxFaults - faults
        /\ LET fs == [files EXCEPT ![OutputDir] = UnlinkAll(created_files, @, unlink_fail)]
           IN \E rmdir_fail \in RmdirFailures(dirs, fs) :
               /\ files' = fs
               /\ dirs' = DirsAfterCleanup(dirs, fs, rmdir_fail)
               /\ faults' = faults + Cardinality(unlink_fail)
                                   + (IF rmdir_fail = "none" THEN 0 ELSE 1)
               /\ last' = Called("cleanup", "ok",
                                 [unlink_fail |-> unlink_fail, rmdir_fail |-> rmdir_fail], 0)
    /\ created_files' = RecordAfterCleanup(created_files)
    /\ succeeded' = <<>>
    /\ calls' = calls + 1
    /\ UNCHANGED <<use_timestamp, nameVars>>

-----------------------------------------------------------------------------
(* The generator and the filesystem it is constructed over *)

\* __init__, lines 120-129, over a filesystem that may already hold the
\* directories and a file of somebody else
Init ==
    /\ use_timestamp \in BOOLEAN
    /\ dirs \in {ds \in SUBSET Dirs : TsDir \in ds => (BaseDir \in ds /\ use_timestamp)}
    /\ files \in {fs \in [Dirs -> {EmptyDir, [n \in {ForeignName} |-> Foreign]}] :
                    /\ \A d \in Dirs : d \notin dirs => fs[d] = EmptyDir
                    /\ TsDir \in dirs => fs[BaseDir] = EmptyDir}
    /\ created_files = <<>>
    /\ last = NoCall
    /\ succeeded = <<>>
    /\ faults = 0
    /\ calls = 0
    /\ n_count = 0
    /\ n_base = <<>>
    /\ n_i = 0
    /\ n_filename = <<>>

Next ==
    \/ GenerateFile
    \/ GenerateMultipleFiles
    \/ Cleanup

Spec == Init /\ [][Next]_vars

-----------------------------------------------------------------------------
(* The naming loop of _generate_files_by_count alone, over larger counts *)

NameInit ==
    /\ n_count \in 1..MaxNameCount
    /\ n_base \in BaseNames
    /\ n_i = 0
    /\ n_filename = <<>>
    /\ use_timestamp = TRUE
    /\ dirs = {}
    /\ files = [d \in Dirs |-> EmptyDir]
    /\ created_files = <<>>
    /\ last = NoCall
    /\ succeeded = <<>>
    /\ faults = 0
    /\ calls = 0

\* lines 243-249: the next value of i and the filename built for it
NameStep ==
    /\ n_i < n_count
    /\ n_i' = n_i + 1
    /\ n_filename' = CountFilename(n_count, n_base, n_i + 1)
    /\ UNCHANGED <<n_count, n_base, genVars>>

NameNext == NameStep

NameSpec == NameInit /\ [][NameNext]_vars

-----------------------------------------------------------------------------
(* Properties *)

IsBatch(l) == l.op = "generate_multiple_files"
IsCleanup(l) == l.op = "cleanup"
ByCount(a) == a.filenames = None /\ a.count # None
CleanCleanup(l) == IsCleanup(l) /\ l.args.unlink_fail = {} /\ l.args.rmdir_fail = "none"

\* The step is a call of the given operation
Step(op) == calls' = calls + 1 /\ last'.op = op

\* The paths the last call appended to the record
Written == SubSeq(created_files, last.pre_len + 1, Len(created_files))

InitCount(a) == IF a.create_init THEN 1 ELSE 0

\* C1: a count-based batch of N >= 1 on a fresh generator, without I/O failure,
\* leaves N (+1 with the init file) pairwise distinct paths in the record and
\* that many distinct files in the output directory.
C1_BatchWritesDistinctFiles ==
    (/\ IsBatch(last) /\ last.result = "ok" /\ ByCount(last.args)
     /\ last.pre_len = 0)
    => LET n == Value(last.args.count) + InitCount(last.args) IN
       /\ Len(created_files) = n
       /\ Cardinality(Range(created_files)) = n
       /\ Range(created_files) \subseteq DOMAIN files[OutputDir]

Pow10(k) == IF k = 0 THEN 1 ELSE IF k = 1 THEN 10 ELSE IF k = 2 THEN 100 ELSE 1000

\* The number of decimal digits of n, 1 <= n < 1000
DigitCount(n) == CHOOSE k \in 1..3 : Pow10(k - 1) <= n /\ n < Pow10(k)

DigitOf(c) == CHOOSE d \in 0..9 : DigitChars[d + 1] = c

RECURSIVE DigitsValue(_)
DigitsValue(ds) ==
    IF ds = <<>> THEN 0
    ELSE 10 * DigitsValue(SubSeq(ds, 1, Len(ds) - 1)) + DigitOf(ds[Len(ds)])

\* C2: for count N > 1 the i-th name is the base name, "_" and i written in
\* exactly as many digits as N has, zeros on the left; for N = 1 it is the bare
\* base name.
C2_CountNaming ==
    n_i >= 1 =>
        IF n_count = 1 THEN n_filename = n_base
        ELSE LET index == SubSeq(n_filename, Len(n_base) + 2, Len(n_filename)) IN
             /\ SubSeq(n_filename, 1, Len(n_base)) = n_base
             /\ n_filename[Len(n_base) + 1] = "_"
             /\ Len(index) = DigitCount(n_count)
             /\ \A k \in 1..Len(index) : \E d \in 0..9 : DigitChars[d + 1] = index[k]
             /\ DigitsValue(index) = n_i

C2_Witness ==
    /\ n_count = 10
    /\ n_i = 1
    /\ n_filename = n_base \o <<"_", "0", "1">>

InvalidPolicy(a) ==
    \/ a.filenames # None /\ a.count # None
    \/ a.filenames = None /\ a.count = None
    \/ a.count # None /\ Value(a.count) <= 0

\* C3: a batch call raises ValueError exactly when both selectors are given,
\* none is given, or the count is 0 or negative.
C3_ValueErrorIffInvalidPolicy ==
    IsBatch(last) => (last.result = "ValueError" <=> InvalidPolicy(last.args))

\* C4: a batch call that raises ValueError has created no directory, written no
\* file and left the record as it was.
C4_ConfigErrorChangesNothing ==
    [][(Step("generate_multiple_files") /\ last'.result = "ValueError")
        => UNCHANGED <<created_files, dirs, files>>]_vars

\* C5 as stated: after cleanup the record is empty, no file of the record is
\* left, and the output directory exists exactly when it still has an entry.
C5_CleanupRemovesEveryFile ==
    [][Step("cleanup") =>
        /\ created_files' = <<>>
        /\ \A p \in Range(created_files) : p \notin DOMAIN files'[OutputDir]
        /\ OutputDir \in dirs' <=> Entries(dirs', files', OutputDir) # {}]_vars

\* C5 amended: after cleanup the record is empty, the only files of the record
\* that are left are those whose removal failed, a directory that still has an
\* entry is left in place, and an empty one is removed unless its rmdir failed.
C5_CleanupBestEffort ==
    [][Step("cleanup") =>
        /\ created_files' = <<>>
        /\ \A p \in Range(created_files) :
              p \in DOMAIN files'[OutputDir] <=> p \in last'.args.unlink_fail
        /\ Entries(dirs', files', OutputDir) # {} => OutputDir \in dirs'
        /\ (Entries(dirs', files', OutputDir) = {} /\ last'.args.rmdir_fail # "output_dir")
              => OutputDir \notin dirs']_vars

C5_Witness ==
    /\ IsCleanup(last)
    /\ last.args.unlink_fail # {}
    /\ last.pre_len > Cardinality(last.args.unlink_fail)
    /\ created_files = <<>>
    /\ OutputDir \in dirs

Removed(d) == d \in dirs /\ d \notin dirs'

\* C6 as stated: without timestamp naming cleanup never removes the base
\* directory; with it, only after the output directory was removed and the base
\* directory is empty; and never a directory that still has an entry.
C6_BaseRemovedOnlyAsAncestor ==
    [][Step("cleanup") =>
        /\ ~use_timestamp => ~Removed(BaseDir)
        /\ (use_timestamp /\ Removed(BaseDir))
              => Removed(TsDir) /\ Entries(dirs', files', BaseDir) = {}
        /\ \A d \in Dirs : Removed(d) => Entries(dirs', files', d) = {}]_vars

\* C6 amended: without timestamp naming the base directory is the output
\* directory and is removed only as such, when it is empty after the files
\* were removed; with it, only after the output directory was removed and the
\* base directory is empty; and never a directory that still has an entry.
C6_BaseRemovedOnlyWhenEmpty ==
    [][Step("cleanup") =>
        /\ (~use_timestamp /\ Removed(BaseDir))
              => OutputDir = BaseDir /\ Entries(dirs', files', OutputDir) = {}
        /\ (use_timestamp /\ Removed(BaseDir))
              => Removed(TsDir) /\ Entries(dirs', files', BaseDir) = {}
        /\ \A d \in Dirs : Removed(d) => Entries(dirs', files', d) = {}]_vars

C6_Witness ==
    /\ IsCleanup(last)
    /\ use_timestamp
    /\ last.dir_existed
    /\ last.pre_len > 0
    /\ dirs = {}

\* C7 as stated: after a batch that completes, every file it wrote under the
\* name __init__.py holds the prefixed payload and every other file it wrote
\* holds the plain template.
C7_InitNameGetsPrefixedPayload ==
    (IsBatch(last) /\ last.result = "ok") =>
        \A name \in Range(Written) :
            files[OutputDir][name] =
                IF name = InitName THEN InitPlusTemplate ELSE Template

\* C7 amended: after a batch that completes, __init__.py holds the prefixed
\* payload when the batch wrote it as its init file and no data file of the
\* batch has that name, and the plain template when a data file has that name;
\* every other file the batch wrote holds the plain template.
C7_PayloadFollowsLastWrite ==
    (IsBatch(last) /\ last.result = "ok") =>
        LET data == IF last.args.create_init THEN Tail(Written) ELSE Written IN
        \A name \in Range(Written) :
            files[OutputDir][name] =
                IF name = InitName /\ name \notin Range(data)
                THEN InitPlusTemplate ELSE Template

C7_Witness ==
    /\ IsBatch(last)
    /\ last.result = "ok"
    /\ last.args.create_init
    /\ InitName \in Range(Tail(Written))
    /\ files[OutputDir][InitName] = Template

IsPrefix(s, t) == Len(s) <= Len(t) /\ SubSeq(t, 1, Len(s)) = s

\* C8: the record is the sequence of the writes that went through since the
\* last cleanup; a generate_file that raises leaves it unchanged; a step either
\* appends to it or is the cleanup that empties it.
C8_RecordIsSuccessfulWrites ==
    [][/\ created_files' = succeeded'
       /\ (Step("generate_file") /\ last'.result = "IOError")
             => created_files' = created_files
       /\ IF Step("cleanup") THEN created_files' = <<>>
          ELSE IsPrefix(created_files, created_files')]_vars

C8_Witness ==
    /\ last.op = "generate_file"
    /\ last.result = "IOError"
    /\ last.dir_existed
    /\ Len(created_files) >= 2

\* C9: a count-based batch of N >= 1 started without the output directory,
\* then cleanup, with no I/O failure in either: no file is left, the record is
\* empty and the output directory is gone.
C9_RoundTrip ==
    (/\ CleanCleanup(last)
     /\ IsBatch(last.after) /\ last.after.result = "ok"
     /\ last.after.count # None /\ last.after.fresh_start)
    => /\ created_files = <<>>
       /\ OutputDir \notin dirs
       /\ files[OutputDir] = EmptyDir
       /\ last.pre_len >= Value(last.after.count)

C9_Witness ==
    /\ CleanCleanup(last)
    /\ IsBatch(last.after) /\ last.after.result = "ok" /\ last.after.fresh_start
    /\ last.after.count = Some(3)
    /\ last.pre_len = 4
    /\ OutputDir \notin dirs

\* The names a batch call writes, in the order the claim gives: the init file
\* first, then the data files in naming-policy order
ExpectedOrder(a) ==
    (IF a.create_init THEN <<InitName>> ELSE <<>>) \o
    (IF a.count # None
     THEN [i \in 1..(IF Value(a.count) > 0 THEN Value(a.count) ELSE 0) |->
             Normalize(CountFilename(Value(a.count), a.base_filename, i))]
     ELSE [k \in 1..Len(Value(a.filenames)) |-> Normalize(Value(a.filenames)[k])])

\* C10: a batch writes the init file first and the data files in order; when
\* the k-th write raises, the call raises at once with the first k-1 files on
\* disk and in the record and no later file written; a cleanup after it
\* removes exactly the recorded files.
C10_FailFastInOrder ==
    [][/\ (Step("generate_multiple_files") /\ last'.result \in {"ok", "IOError"}) =>
            LET expected == ExpectedOrder(last'.args)
                written == SubSeq(created_files', Len(created_files) + 1,
                                  Len(created_files'))
                k == last'.attempts
            IN /\ IsPrefix(created_files, created_files')
               /\ IsPrefix(written, expected)
               /\ Range(written) \subseteq DOMAIN files'[OutputDir]
               /\ last'.result = "ok" => written = expected
               /\ last'.result = "IOError" =>
                    /\ Len(written) = k - 1
                    /\ \A j \in (k + 1)..Len(expected) :
                          (/\ expected[j] \notin Range(SubSeq(expected, 1, k))
                           /\ expected[j] \notin DOMAIN files[OutputDir])
                          => expected[j] \notin DOMAIN files'[OutputDir]
       /\ (/\ IsBatch(last) /\ last.result = "IOError"
           /\ Step("cleanup") /\ CleanCleanup(last')) =>
            /\ DOMAIN files[OutputDir] \ DOMAIN files'[OutputDir] = Range(created_files)
            /\ last.pre_len = 0 => Range(created_files) = Range(Written)]_vars

C10_Witness ==
    /\ CleanCleanup(last)
    /\ IsBatch(last.after) /\ last.after.result = "IOError"
    /\ last.pre_len >= 2

====
